---- MODULE Spec2Model ----
(***************************************************************************)
(* The enrichment-and-rendering pipeline of dcgm-exporter (HPC job         *)
(* mapping): hpcMapper.Process, FindMIGUUID, readFile, getGPUFiles         *)
(* (internal/pkg/transformation/hpc.go) and RenderSlurm                    *)
(* (internal/pkg/rendermetrics/render_metrics.go).                         *)
(*                                                                         *)
(* A Go string is a sequence of chunks.  A chunk is a piece of text that   *)
(* no operation of the program looks inside: a single character wherever   *)
(* the code inspects characters (job lines, values, device indices), a     *)
(* longer literal elsewhere (a UUID, a fixed piece of a format string).    *)
(* A Go int is a signed 64-bit integer, kept as a sign and a sequence of   *)
(* decimal digits so that the arithmetic keeps its width.                  *)
(***************************************************************************)
EXTENDS Integers, Sequences, FiniteSets, TLC

\* ------------------------------------------------------------ strings

Str(c) == <<c>>

EmptyStr == <<>>

\* strings.Contains(s, sub)
Contains(s, sub) ==
    \E i \in 0..(Len(s) - Len(sub)) : SubSeq(s, i + 1, i + Len(sub)) = sub

\* strings.Split(s, sep) for a one-character separator
RECURSIVE Split(_, _)
Split(s, sep) ==
    IF \E i \in 1..Len(s) : s[i] = sep
    THEN LET i == CHOOSE k \in 1..Len(s) :
                      s[k] = sep /\ \A j \in 1..(k - 1) : s[j] # sep
         IN  <<SubSeq(s, 1, i - 1)>> \o Split(SubSeq(s, i + 1, Len(s)), sep)
    ELSE <<s>>

DigitChars == <<"0", "1", "2", "3", "4", "5", "6", "7", "8", "9">>

IsDigit(c) == \E d \in 1..Len(DigitChars) : DigitChars[d] = c

DigitVal(c) == (CHOOSE d \in 1..Len(DigitChars) : DigitChars[d] = c) - 1

AllDigits(s) == \A i \in 1..Len(s) : IsDigit(s[i])

\* ------------------------------------------------------------ 64-bit int
\* A magnitude is a sequence of decimal digits, most significant first,
\* without leading zeros (zero is <<0>>).

RECURSIVE Norm(_)
Norm(d) ==
    IF Len(d) = 0 THEN <<0>>
    ELSE IF Len(d) > 1 /\ d[1] = 0 THEN Norm(Tail(d))
    ELSE d

ZeroMag == <<0>>

\* -1, 0, 1 as a is less than, equal to, greater than b (both normalised)
RECURSIVE CmpFrom(_, _, _)
CmpFrom(a, b, i) ==
    IF i > Len(a) THEN 0
    ELSE IF a[i] < b[i] THEN -1
    ELSE IF a[i] > b[i] THEN 1
    ELSE CmpFrom(a, b, i + 1)

CmpMag(a, b) ==
    IF Len(a) < Len(b) THEN -1
    ELSE IF Len(a) > Len(b) THEN 1
    ELSE CmpFrom(a, b, 1)

PadTo(d, n) == [i \in 1..(n - Len(d)) |-> 0] \o d

RECURSIVE SubDigits(_, _, _, _)
SubDigits(a, b, i, borrow) ==
    IF i = 0 THEN <<>>
    ELSE LET t == a[i] - b[i] - borrow
         IN  IF t < 0
             THEN SubDigits(a, b, i - 1, 1) \o <<t + 10>>
             ELSE SubDigits(a, b, i - 1, 0) \o <<t>>

\* a - b for a >= b
SubMag(a, b) == Norm(SubDigits(a, PadTo(b, Len(a)), Len(a), 0))

RECURSIVE NatDigits(_)
NatDigits(n) == IF n < 10 THEN <<n>> ELSE NatDigits(n \div 10) \o <<n % 10>>

RECURSIVE MulDigits(_, _, _, _)
MulDigits(a, m, i, carry) ==
    IF i = 0 THEN (IF carry = 0 THEN <<>> ELSE NatDigits(carry))
    ELSE LET t == a[i] * m + carry
         IN  IF t < 10
             THEN MulDigits(a, m, i - 1, 0) \o <<t>>
             ELSE MulDigits(a, m, i - 1, t \div 10) \o <<t % 10>>

\* a * m for a natural number m
MulMag(a, m) == Norm(MulDigits(a, m, Len(a), 0))

TwoTo63 == <<9, 2, 2, 3, 3, 7, 2, 0, 3, 6, 8, 5, 4, 7, 7, 5, 8, 0, 8>>

TwoTo64 == <<1, 8, 4, 4, 6, 7, 4, 4, 0, 7, 3, 7, 0, 9, 5, 5, 1, 6, 1, 6>>

MaxInt64 == [neg |-> FALSE, mag |-> SubMag(TwoTo63, <<1>>)]

MinInt64 == [neg |-> TRUE, mag |-> TwoTo63]

ZeroInt == [neg |-> FALSE, mag |-> ZeroMag]

RECURSIVE Reduce64(_)
Reduce64(r) ==
    IF CmpMag(r, TwoTo64) >= 0 THEN Reduce64(SubMag(r, TwoTo64)) ELSE r

\* a mod 2^64, by long division
RECURSIVE ModDigits(_, _, _)
ModDigits(a, i, rem) ==
    IF i > Len(a) THEN rem
    ELSE LET next == Reduce64(Norm(rem \o <<a[i]>>))
         IN  IF Len(next) > 0 THEN ModDigits(a, i + 1, next) ELSE next

Mod64(a) == ModDigits(a, 1, ZeroMag)

Abs(m) == IF m < 0 THEN -m ELSE m

\* The Go expression x * m on int: the product wraps to 64 bits (two's complement).
MulInt(x, m) ==
    LET p     == MulMag(x.mag, Abs(m))
        pneg  == (x.neg # (m < 0)) /\ p # ZeroMag
        r     == Mod64(p)
        u     == IF pneg /\ r # ZeroMag THEN SubMag(TwoTo64, r) ELSE r
    IN  IF CmpMag(u, TwoTo63) >= 0
        THEN [neg |-> TRUE, mag |-> SubMag(TwoTo64, u)]
        ELSE [neg |-> FALSE, mag |-> u]

StrDigits(s) == Norm([i \in 1..Len(s) |-> DigitVal(s[i])])

HasSign(s) == Len(s) > 0 /\ s[1] \in {"-", "+"}

Unsigned(s) == IF HasSign(s) THEN Tail(s) ELSE s

\* strconv.Atoi(s), its error dropped: 0 on a syntax error, the nearest int64 on a
\* range error.
Atoi(s) ==
    LET body   == Unsigned(s)
        minus  == HasSign(s) /\ s[1] = "-"
        digits == StrDigits(body)
    IN  IF Len(body) = 0 \/ ~AllDigits(body) THEN ZeroInt
        ELSE IF ~minus /\ CmpMag(digits, TwoTo63) >= 0 THEN MaxInt64
        ELSE IF minus /\ CmpMag(digits, TwoTo63) > 0 THEN MinInt64
        ELSE [neg |-> minus /\ digits # ZeroMag, mag |-> digits]

MagStr(d) == [i \in 1..Len(d) |-> DigitChars[d[i] + 1]]

\* fmt.Sprintf("%d", x)
FormatInt(x) == (IF x.neg THEN <<"-">> ELSE <<>>) \o MagStr(x.mag)

\* ------------------------------------------------------------ float64
\* A float is a sign, the decimal digits of its integer and fraction parts together,
\* and the number of fraction digits.  The values of the model carry at most six
\* fraction digits and few significant digits, where float64 and %f are exact.

DotAt(s) == CHOOSE k \in 1..Len(s) : s[k] = "." /\ \A j \in 1..(k - 1) : s[j] # "."

\* strconv.ParseFloat(s, 64), its error dropped: 0 on a syntax error
ParseFloat(s) ==
    LET body  == Unsigned(s)
        minus == HasSign(s) /\ s[1] = "-"
        k     == DotAt(body)
        ip    == SubSeq(body, 1, k - 1)
        fp    == SubSeq(body, k + 1, Len(body))
    IN  IF ~Contains(body, <<".">>) \/ ~AllDigits(ip) \/ ~AllDigits(fp)
           \/ Len(ip) + Len(fp) = 0
        THEN [neg |-> FALSE, mag |-> ZeroMag, scale |-> 0]
        ELSE [neg |-> minus, mag |-> StrDigits(ip \o fp), scale |-> Len(fp)]

\* The Go expression x * float64(m)
MulFloat(x, m) ==
    [neg |-> x.neg # (m < 0), mag |-> MulMag(x.mag, Abs(m)), scale |-> x.scale]

\* fmt.Sprintf("%f", x): six fraction digits
FormatFloat(x) ==
    LET d  == PadTo(x.mag, x.scale + 1)
        n  == Len(d) - x.scale
        fr == SubSeq(d, n + 1, Len(d)) \o [i \in 1..(6 - x.scale) |-> 0]
    IN  (IF x.neg THEN <<"-">> ELSE <<>>)
            \o MagStr(SubSeq(d, 1, n)) \o <<".">> \o MagStr(SubSeq(fr, 1, 6))

\* ------------------------------------------------------------ value model

\* transformation.HpcJobAttribute, transformation.HpcUserAttribute
HpcJobAttribute == "job"

HpcUserAttribute == "user"

NoAttributes == [a \in {} |-> EmptyStr]

\* m[k] = v on a Go map
MapPut(m, k, v) == [x \in DOMAIN m \cup {k} |-> IF x = k THEN v ELSE m[x]]

\* utils.DeepCopy(metric): a copy that shares nothing with its source.  Values here
\* are immutable, so the copy is the value itself.
DeepCopy(metric) == metric

\* hpcMapper.Process, step 1: the alternate value of a Sample
ScaleValue(metric) ==
    IF metric.Counter.Multiplier # 1
    THEN IF Contains(metric.Value, <<".">>)
         THEN FormatFloat(MulFloat(ParseFloat(metric.Value), metric.Counter.Multiplier))
         ELSE FormatInt(MulInt(Atoi(metric.Value), metric.Counter.Multiplier))
    ELSE metric.Value

\* hpcMapper.Process, step 2: gpuid, or gpuid.gpuinstanceid for a MIG Sample
GpuIDOf(metric) ==
    IF metric.MigProfile # EmptyStr
    THEN metric.GPU \o <<".">> \o metric.GPUInstanceID
    ELSE metric.GPU

\* ------------------------------------------------------------ topology

TwoTo32 == <<4, 2, 9, 4, 9, 6, 7, 2, 9, 6>>

\* strconv.ParseUint(s, 10, 32): no sign, digits only, below 2^32
ParseUintOK(s) ==
    Len(s) > 0 /\ AllDigits(s) /\ CmpMag(StrDigits(s), TwoTo32) < 0

\* FindMIGUUID: the UUID of a GPU instance, "" when the instance is unknown, and a
\* fatal exit (logrus.Fatalf) on an index it cannot use.
FindMIGUUID(sysInfo, gpu, instanceId) ==
    IF ~ParseUintOK(gpu) THEN [fatal |-> TRUE, uuid |-> EmptyStr]
    ELSE IF CmpMag(StrDigits(gpu), NatDigits(sysInfo.GPUCount)) >= 0
         THEN [fatal |-> TRUE, uuid |-> EmptyStr]
    ELSE IF ~ParseUintOK(instanceId) THEN [fatal |-> TRUE, uuid |-> EmptyStr]
    ELSE LET gpuid == CHOOSE g \in 0..(sysInfo.GPUCount - 1) :
                          NatDigits(g) = StrDigits(gpu)
             insts == sysInfo.GPUs[gpuid + 1].GPUInstances
             hits  == {j \in 1..Len(insts) :
                          NatDigits(insts[j].Info.NvmlInstanceId) = StrDigits(instanceId)}
         IN  IF hits = {} THEN [fatal |-> FALSE, uuid |-> EmptyStr]
             ELSE [fatal |-> FALSE,
                   uuid  |-> insts[CHOOSE j \in hits : \A h \in hits : j <= h].UUID]

\* ------------------------------------------------------------ fan-out

\* LookupJobs as it would be if the lines of the two keys were put together
LookupJobsMerged(jobMap, uuid, gpuID) ==
    [exists |-> uuid \in DOMAIN jobMap \/ gpuID \in DOMAIN jobMap,
     jobs   |-> (IF uuid \in DOMAIN jobMap THEN jobMap[uuid] ELSE <<>>)
                    \o (IF gpuID \in DOMAIN jobMap THEN jobMap[gpuID] ELSE <<>>)]

\* hpcMapper.Process, step 4: the job list of a Sample, by UUID first and by gpuID
\* only when the UUID has no entry
LookupJobs(jobMap, uuid, gpuID) ==
    IF uuid \in DOMAIN jobMap THEN [exists |-> TRUE, jobs |-> jobMap[uuid]]
    ELSE IF gpuID \in DOMAIN jobMap THEN [exists |-> TRUE, jobs |-> jobMap[gpuID]]
    ELSE [exists |-> FALSE, jobs |-> <<>>]

\* One turn of the loop over jobs: what it appends to modifiedMetrics
FanOutOne(metric, job) ==
    LET modifiedMetric == DeepCopy(metric)
    IN  IF Contains(job, <<" ">>)
        THEN LET job_user == Split(job, " ")
             IN  IF Len(job_user) # 2 THEN <<>>
                 ELSE <<[modifiedMetric EXCEPT !.Attributes =
                            MapPut(MapPut(@, HpcJobAttribute, job_user[1]),
                                   HpcUserAttribute, job_user[2])]>>
        ELSE <<[modifiedMetric EXCEPT !.Attributes = MapPut(@, HpcJobAttribute, job)]>>

\* FanOut as it would be if each copy were put in front of the earlier ones
RECURSIVE FanOutReversed(_, _)
FanOutReversed(metric, jobs) ==
    IF Len(jobs) = 0 THEN <<>>
    ELSE FanOutReversed(metric, Tail(jobs)) \o FanOutOne(metric, Head(jobs))

RECURSIVE FanOut(_, _)
FanOut(metric, jobs) ==
    IF Len(jobs) = 0 THEN <<>>
    ELSE FanOutOne(metric, Head(jobs)) \o FanOut(metric, Tail(jobs))

\* hpcMapper.Process, step 5: what one Sample appends to modifiedMetrics
Enrich(metric, found) ==
    IF found.exists /\ Len(found.jobs) # 0
    THEN FanOut(metric, found.jobs)
    ELSE <<metric>>

\* ------------------------------------------------------------ inputs

\* The most Samples of a SampleSet, over all its counters
MaxSamples == 2

\* The most lines of the job-mapping directory, over all its files
MaxLines == 2

\* The most entries of the job-mapping directory
MaxFiles == 2

SeqsUpTo(S, n) == UNION {[1..k -> S] : k \in 0..n}

RECURSIVE SumLen(_, _)
SumLen(f, D) ==
    IF D = {} THEN 0
    ELSE LET x == CHOOSE y \in D : TRUE IN Len(f[x]) + SumLen(f, D \ {x})

\* The device topology the resolver answers from: GPU 0 whole, GPU 1 with one
\* GPU instance
SysInfo ==
    [GPUCount |-> 2,
     GPUs |-> <<[GPUInstances |-> <<>>],
                [GPUInstances |-> <<[Info |-> [NvmlInstanceId |-> 3],
                                     UUID |-> <<"MIG-x">>]>>]>>]

CounterA ==
    [FieldName |-> "DCGM_FI_DEV_SM_CLOCK", AlterFieldName |-> "", Multiplier |-> 1,
     PromType |-> "gauge", Help |-> "SM clock frequency (in MHz).", AlterHelp |-> ""]

CounterB(m) ==
    [FieldName |-> "DCGM_FI_DEV_FB_USED",
     AlterFieldName |-> "nvidia_gpu_memory_used_bytes", Multiplier |-> m,
     PromType |-> "gauge", Help |-> "Framebuffer memory used (in MiB).",
     AlterHelp |-> "Memory used by the GPU device in bytes"]

Multipliers == {1, 2, -3, 1048576}

\* The devices the collector reports Samples of: a whole GPU, a known GPU
\* instance, an unknown GPU instance, and three the resolver cannot use (an index
\* equal to the GPU count, an index that is no number, an instance id that is no
\* number)
Devices ==
    {[GPU |-> <<"0">>, GPUUUID |-> <<"GPU-a">>, GPUDevice |-> <<"nvidia0">>,
      MigProfile |-> EmptyStr, GPUInstanceID |-> EmptyStr],
     [GPU |-> <<"1">>, GPUUUID |-> <<"GPU-b">>, GPUDevice |-> <<"nvidia1">>,
      MigProfile |-> <<"1g.10gb">>, GPUInstanceID |-> <<"3">>],
     [GPU |-> <<"1">>, GPUUUID |-> <<"GPU-b">>, GPUDevice |-> <<"nvidia1">>,
      MigProfile |-> <<"1g.10gb">>, GPUInstanceID |-> <<"9">>],
     [GPU |-> <<"2">>, GPUUUID |-> <<"GPU-c">>, GPUDevice |-> <<"nvidia2">>,
      MigProfile |-> <<"1g.10gb">>, GPUInstanceID |-> <<"3">>],
     [GPU |-> <<"x">>, GPUUUID |-> <<"GPU-d">>, GPUDevice |-> <<"nvidiax">>,
      MigProfile |-> <<"1g.10gb">>, GPUInstanceID |-> <<"3">>],
     [GPU |-> <<"1">>, GPUUUID |-> <<"GPU-b">>, GPUDevice |-> <<"nvidia1">>,
      MigProfile |-> <<"1g.10gb">>, GPUInstanceID |-> <<"y">>]}

PlainValue == <<"1", "3", "9">>

Values ==
    {PlainValue, <<"-", "4">>, <<"+", "5">>, <<"0", "0", "7">>, EmptyStr,
     <<"1", "e", "3">>, <<"1", ".", "5">>, <<"-", "0", ".", "5">>,
     <<"9", "2", "2", "3", "3", "7", "2", "0", "3", "6",
       "8", "5", "4", "7", "7", "5", "7", "9", "4">>,
     <<"9", "9", "9", "9", "9", "9", "9", "9", "9", "9",
       "9", "9", "9", "9", "9", "9", "9", "9", "9", "9">>}

\* The label a Sample may carry
DriverLabel == "DCGM_FI_DRIVER_VERSION"

\* A Sample as the collector hands it over: nothing derived yet.  The Samples of
\* whole GPUs carry a label and no host name, those of GPU instances a host name
\* and no label.
NewMetric(c, d, v) ==
    [Counter |-> c, Value |-> v, AlterValue |-> EmptyStr,
     GPU |-> d.GPU, GPUUUID |-> d.GPUUUID, GPUDevice |-> d.GPUDevice,
     GPUModelName |-> <<"A100">>, MigProfile |-> d.MigProfile,
     GPUInstanceID |-> d.GPUInstanceID, AlterUUID |-> EmptyStr,
     Attributes |-> NoAttributes,
     UUID |-> <<"UUID">>, GPUPCIBusID |-> <<"00000000:0">> \o d.GPU \o <<":00.0">>,
     Hostname |-> IF d.MigProfile = EmptyStr THEN EmptyStr ELSE <<"node1">>,
     Labels |-> IF d.MigProfile = EmptyStr
                THEN [k \in {DriverLabel} |-> <<"535.104.05">>]
                ELSE NoAttributes]

\* The lines of a mapping file: "7 8" (job and user), "9" (job), "7 8 9" (three
\* tokens), "7<TAB>8<TAB>9" (three tokens between tabs), " 8" (a space before the
\* only token), "" (an empty line)
Lines ==
    {<<"7", " ", "8">>, <<"9">>, <<"7", " ", "8", " ", "9">>,
     <<"7", "\t", "8", "\t", "9">>, <<" ", "8">>, EmptyStr}

\* The names of the directory's entries, in the order os.ReadDir lists them
FileNames == <<<<"0">>, <<"1", ".", "9">>, <<"GPU-a">>>>

\* A directory entry: a regular file with its lines, a regular file that cannot be
\* read, a subdirectory
Entries ==
    {[kind |-> "file", lines |-> l] : l \in SeqsUpTo(Lines, MaxLines)}
        \cup {[kind |-> k, lines |-> <<>>] : k \in {"ioerr", "dir"}}

DirContents(maxFiles) ==
    UNION {{f \in [{FileNames[i] : i \in N} -> Entries] :
               SumLen([n \in DOMAIN f |-> f[n].lines], DOMAIN f) <= MaxLines} :
           N \in {M \in SUBSET (1..Len(FileNames)) : Cardinality(M) <= maxFiles}}

\* The job-mapping directory: missing, unreadable, or its entries
Dirs(maxFiles) ==
    {[state |-> st, files |-> <<>>] : st \in {"missing", "unreadable"}}
        \cup {[state |-> "ok", files |-> f] : f \in DirContents(maxFiles)}

EnrichCounters == {CounterA, CounterB(1048576)}

\* The SampleSets of two counters with at most n Samples of the devices D
SampleSets(D, n) ==
    {[c \in EnrichCounters |-> [i \in 1..Len(f[c]) |-> NewMetric(c, f[c][i], PlainValue)]] :
        f \in {g \in [EnrichCounters -> SeqsUpTo(D, n)] : SumLen(g, EnrichCounters) <= n}}

\* The devices of the SampleSets of several Samples
CoreDevices == {d \in Devices : d.GPU \in {<<"0">>, <<"1">>, <<"2">>} /\ d.GPUInstanceID # <<"y">>}

\* The SampleSets of the scaling cases: one counter of any multiplier, one Sample
\* of the whole GPU with any value
ScaleSampleSets ==
    {[c \in {CounterB(m)} |->
         <<NewMetric(c, CHOOSE d \in Devices : d.GPUUUID = <<"GPU-a">>, v)>>] :
        m \in Multipliers, v \in Values}

\* ------------------------------------------------------------ state

VARIABLES
    dir,             \* the job-mapping directory (p.Config.HPCJobMappingDir)
    entry,           \* the SampleSet as Process received it
    metrics,         \* the SampleSet (collector.MetricsByCounter)
    pc,              \* where Process stands
    gpuFiles,        \* the mapping files still to read
    gpuToJobMap,     \* the job index of this pass
    gpuUUIDs,        \* the identifiers resolved in this pass, by gpuID
    pending,         \* the counters the loop has not visited yet
    counter,         \* the counter the loop is at
    idx,             \* the Sample of that counter the loop is at
    modifiedMetrics, \* the output sequence of that counter
    strJobId,        \* RenderSlurm: the nvidia_gpu_jobId block
    strUserId,       \* RenderSlurm: the nvidia_gpu_jobUid block
    w,               \* the text the last rendering wrote to its io.Writer
    resolverCalls,   \* how often this pass has called FindMIGUUID, by gpuID
    laterPass        \* Process has been called before this pass

vars ==
    <<dir, entry, metrics, pc, gpuFiles, gpuToJobMap, gpuUUIDs, pending, counter,
      idx, modifiedMetrics, strJobId, strUserId,
      w, resolverCalls, laterPass>>

NoMap == [a \in {} |-> <<>>]

NoCalls == [a \in {} |-> 0]

InitWith(m, d) ==
    /\ metrics = m
    /\ entry = m
    /\ dir = d
    /\ pc = "stat"
    /\ gpuFiles = <<>>
    /\ gpuToJobMap = NoMap
    /\ gpuUUIDs = NoMap
    /\ pending = {}
    /\ counter = CounterA
    /\ idx = 0
    /\ modifiedMetrics = <<>>
    /\ strJobId = <<>>
    /\ strUserId = <<>>
    /\ w = <<>>
    /\ resolverCalls = NoCalls
    /\ laterPass = FALSE

\* One Sample of any device against any directory; several Samples against a
\* directory of one entry; one Sample of any value and multiplier against a missing
\* or an empty directory
Init ==
    \/ \E m \in SampleSets(Devices, 1), d \in Dirs(MaxFiles) : InitWith(m, d)
    \/ \E m \in SampleSets(CoreDevices, MaxSamples), d \in Dirs(1) : InitWith(m, d)
    \/ \E m \in ScaleSampleSets, d \in Dirs(0) : InitWith(m, d)

\* ------------------------------------------------------------ hpcMapper.Process

\* os.Stat of the directory: a missing directory ends the pass with no error
Stat ==
    /\ pc = "stat"
    /\ pc' = IF dir.state = "missing" THEN "done" ELSE "list"
    /\ UNCHANGED <<dir, entry, metrics, gpuFiles, gpuToJobMap, gpuUUIDs, pending,
                   counter, idx, modifiedMetrics, strJobId, strUserId,
                   w, resolverCalls, laterPass>>

\* getGPUFiles: the names of the regular files, or the error of os.ReadDir
GetGPUFilesOf(d) ==
    LET keep == {i \in 1..Len(FileNames) :
                    /\ FileNames[i] \in DOMAIN d.files
                    /\ d.files[FileNames[i]].kind \in {"file", "ioerr"}}
        Pick[i \in 0..Len(FileNames)] ==
            IF i = 0 THEN <<>>
            ELSE IF i \in keep THEN Pick[i - 1] \o <<FileNames[i]>> ELSE Pick[i - 1]
    IN  Pick[Len(FileNames)]

GetGPUFiles ==
    /\ pc = "list"
    /\ IF dir.state = "unreadable"
       THEN pc' = "failed" /\ UNCHANGED <<gpuFiles, pending>>
       ELSE /\ gpuFiles' = GetGPUFilesOf(dir)
            /\ pc' = IF Len(gpuFiles') = 0 THEN "loop" ELSE "read"
            /\ pending' = IF Len(gpuFiles') = 0 THEN DOMAIN metrics ELSE pending
    /\ UNCHANGED <<dir, entry, metrics, gpuToJobMap, gpuUUIDs, counter, idx,
                   modifiedMetrics, strJobId, strUserId,
                   w, resolverCalls, laterPass>>

\* ReadFile as it would be if the error of readFile were logged and the file skipped
ReadFileSkippingErrors ==
    /\ pc = "read"
    /\ LET gpuFileName == Head(gpuFiles)
           file        == dir.files[gpuFileName]
       IN  /\ gpuToJobMap' =
                  IF file.kind = "ioerr" THEN gpuToJobMap
                  ELSE MapPut(gpuToJobMap, gpuFileName,
                              (IF gpuFileName \in DOMAIN gpuToJobMap
                               THEN gpuToJobMap[gpuFileName] ELSE <<>>) \o file.lines)
           /\ gpuFiles' = Tail(gpuFiles)
           /\ pc' = IF Len(gpuFiles') = 0 THEN "loop" ELSE "read"
           /\ pending' = IF Len(gpuFiles') = 0 THEN DOMAIN metrics ELSE pending
    /\ UNCHANGED <<dir, entry, metrics, gpuUUIDs, counter, idx, modifiedMetrics,
                   strJobId, strUserId,
                   w, resolverCalls, laterPass>>

\* One turn of the loop over gpuFiles: readFile and the append to gpuToJobMap
ReadFile ==
    /\ pc = "read"
    /\ LET gpuFileName == Head(gpuFiles)
           file        == dir.files[gpuFileName]
       IN  IF file.kind = "ioerr"
           THEN pc' = "failed" /\ UNCHANGED <<gpuFiles, gpuToJobMap, pending>>
           ELSE /\ gpuToJobMap' =
                       MapPut(gpuToJobMap, gpuFileName,
                              (IF gpuFileName \in DOMAIN gpuToJobMap
                               THEN gpuToJobMap[gpuFileName] ELSE <<>>) \o file.lines)
                /\ gpuFiles' = Tail(gpuFiles)
                /\ pc' = IF Len(gpuFiles') = 0 THEN "loop" ELSE "read"
                /\ pending' = IF Len(gpuFiles') = 0 THEN DOMAIN metrics ELSE pending
    /\ UNCHANGED <<dir, entry, metrics, gpuUUIDs, counter, idx, modifiedMetrics,
                   strJobId, strUserId,
                   w, resolverCalls, laterPass>>

\* NextCounter as it would be if gpuUUIDs were made anew for each counter
NextCounterNewCache ==
    /\ pc = "loop"
    /\ \E c \in pending :
          /\ counter' = c
          /\ pending' = pending \ {c}
    /\ idx' = 1
    /\ modifiedMetrics' = <<>>
    /\ gpuUUIDs' = NoMap
    /\ pc' = "metrics"
    /\ UNCHANGED <<dir, entry, metrics, gpuFiles, gpuToJobMap, strJobId, strUserId,
                   w, resolverCalls, laterPass>>

\* for counter := range metrics: the next counter, in any order
NextCounter ==
    /\ pc = "loop"
    /\ \E c \in pending :
          /\ counter' = c
          /\ pending' = pending \ {c}
    /\ idx' = 1
    /\ modifiedMetrics' = <<>>
    /\ pc' = "metrics"
    /\ UNCHANGED <<dir, entry, metrics, gpuFiles, gpuToJobMap, gpuUUIDs, strJobId,
                   strUserId,
                   w, resolverCalls, laterPass>>

\* One turn of the loop over metrics[counter]
ProcessMetric ==
    /\ pc = "metrics"
    /\ idx <= Len(metrics[counter])
    /\ LET metric   == metrics[counter][idx]
           gpuID    == GpuIDOf(metric)
           resolved == IF gpuID \in DOMAIN gpuUUIDs
                       THEN [fatal |-> FALSE, uuid |-> gpuUUIDs[gpuID]]
                       ELSE IF metric.MigProfile # EmptyStr
                            THEN FindMIGUUID(SysInfo, metric.GPU, metric.GPUInstanceID)
                            ELSE [fatal |-> FALSE, uuid |-> metric.GPUUUID]
           scaled   == [metric EXCEPT !.AlterValue = ScaleValue(metric),
                                      !.AlterUUID = resolved.uuid]
           called   == gpuID \notin DOMAIN gpuUUIDs /\ metric.MigProfile # EmptyStr
       IN  /\ resolverCalls' =
                  IF called
                  THEN MapPut(resolverCalls, gpuID,
                              (IF gpuID \in DOMAIN resolverCalls
                               THEN resolverCalls[gpuID] ELSE 0) + 1)
                  ELSE resolverCalls
           /\ IF resolved.fatal
              THEN /\ pc' = "fatal"
                   /\ UNCHANGED <<gpuUUIDs, idx, modifiedMetrics>>
              ELSE /\ gpuUUIDs' = MapPut(gpuUUIDs, gpuID, resolved.uuid)
                   /\ modifiedMetrics' =
                          modifiedMetrics
                              \o Enrich(scaled, LookupJobs(gpuToJobMap, resolved.uuid, gpuID))
                   /\ idx' = idx + 1
                   /\ pc' = pc
    /\ UNCHANGED <<dir, entry, metrics, gpuFiles, gpuToJobMap, pending, counter,
                   strJobId, strUserId, w, laterPass>>

\* metrics[counter] = modifiedMetrics
StoreCounter ==
    /\ pc = "metrics"
    /\ idx > Len(metrics[counter])
    /\ metrics' = [metrics EXCEPT ![counter] = modifiedMetrics]
    /\ pc' = "loop"
    /\ UNCHANGED <<dir, entry, gpuFiles, gpuToJobMap, gpuUUIDs, pending, counter, idx,
                   modifiedMetrics, strJobId, strUserId,
                   w, resolverCalls, laterPass>>

\* return nil
Return ==
    /\ pc = "loop"
    /\ pending = {}
    /\ pc' = "done"
    /\ UNCHANGED <<dir, entry, metrics, gpuFiles, gpuToJobMap, gpuUUIDs, pending,
                   counter, idx, modifiedMetrics, strJobId, strUserId,
                   w, resolverCalls, laterPass>>

\* ------------------------------------------------------------ RenderSlurm

StrJobIdHeader ==
    <<"# HELP nvidia_gpu_jobId JobId number of a job currently using this GPU as reported by Slurm",
      "\n", " # TYPE nvidia_gpu_jobId gauge", "\n">>

StrUserIdHeader ==
    <<"# HELP nvidia_gpu_jobUid Uid number of user running jobs on this GPU",
      "\n", "# TYPE nvidia_gpu_jobUid gauge", "\n">>

\* The device-identity text of a Sample
Props(deviceMetric) ==
    <<"{minor_number=\"">> \o deviceMetric.GPU \o <<"\"">>
        \o <<",uuid=\"">> \o deviceMetric.AlterUUID \o <<"\"">>
        \o <<",device=\"">> \o deviceMetric.GPUDevice \o <<"\"">>
        \o <<",modelName=\"">> \o deviceMetric.GPUModelName \o <<"\"">>
        \o <<",GPU_I_PROFILE=\"">> \o deviceMetric.MigProfile \o <<"\"">>
        \o <<",GPU_I_ID=\"">> \o deviceMetric.GPUInstanceID \o <<"\"">>

Attr(deviceMetric, name) ==
    IF name \in DOMAIN deviceMetric.Attributes
    THEN deviceMetric.Attributes[name] ELSE EmptyStr

\* RenderSlurmOne as it would be if the user line were written before jobid and
\* userid are added to props
RenderSlurmOneBareUser(text, deviceMetric) ==
    LET props  == Props(deviceMetric)
        jobid  == Attr(deviceMetric, HpcJobAttribute)
        userid == Attr(deviceMetric, HpcUserAttribute)
    IN  IF Contains(text.strJobId, props) THEN text
        ELSE [strJobId  |-> IF jobid = EmptyStr THEN text.strJobId
                            ELSE text.strJobId \o <<"nvidia_gpu_jobId">> \o props
                                     \o <<",jobid=\"">> \o jobid \o <<"\"">>
                                     \o (IF userid # EmptyStr
                                         THEN <<",userid=\"">> \o userid \o <<"\"} ">>
                                         ELSE <<"} ">>)
                                     \o jobid \o <<"\n">>,
              strUserId |-> IF userid = EmptyStr THEN text.strUserId
                            ELSE text.strUserId \o <<"nvidia_gpu_jobUid">> \o props
                                     \o <<"} ">> \o userid \o <<"\n">>]

\* One turn of the inner loop of RenderSlurm on the two blocks
RenderSlurmOne(text, deviceMetric) ==
    LET props  == Props(deviceMetric)
        jobid  == Attr(deviceMetric, HpcJobAttribute)
        userid == Attr(deviceMetric, HpcUserAttribute)
    IN  IF Contains(text.strJobId, props) \/ jobid = EmptyStr THEN text
        ELSE IF userid # EmptyStr
        THEN LET full == props \o <<",jobid=\"">> \o jobid \o <<"\"">>
                             \o <<",userid=\"">> \o userid \o <<"\"} ">>
             IN  [strJobId  |-> text.strJobId \o <<"nvidia_gpu_jobId">> \o full
                                    \o jobid \o <<"\n">>,
                  strUserId |-> text.strUserId \o <<"nvidia_gpu_jobUid">> \o full
                                    \o userid \o <<"\n">>]
        ELSE LET full == props \o <<",jobid=\"">> \o jobid \o <<"\"">> \o <<"} ">>
             IN  [strJobId  |-> text.strJobId \o <<"nvidia_gpu_jobId">> \o full
                                    \o jobid \o <<"\n">>,
                  strUserId |-> text.strUserId]

RECURSIVE RenderSlurmAll(_, _)
RenderSlurmAll(text, deviceMetrics) ==
    IF Len(deviceMetrics) = 0 THEN text
    ELSE RenderSlurmAll(RenderSlurmOne(text, Head(deviceMetrics)), Tail(deviceMetrics))

\* The Samples of a SampleSet, its counters in the given order
RECURSIVE Flatten(_, _)
Flatten(m, order) ==
    IF Len(order) = 0 THEN <<>> ELSE m[Head(order)] \o Flatten(m, Tail(order))

Orders(S) == {o \in [1..Cardinality(S) -> S] : \A c \in S : \E i \in DOMAIN o : o[i] = c}

\* RenderSlurm on the SampleSet, as RenderGroup calls it for the GPU group once the
\* pass has returned: range metrics visits the counters in any order
RenderSlurm ==
    /\ pc \in {"done", "failed"}
    /\ \E order \in Orders(DOMAIN metrics) :
          LET text == RenderSlurmAll([strJobId |-> StrJobIdHeader,
                                      strUserId |-> StrUserIdHeader],
                                     Flatten(metrics, order))
          IN  /\ strJobId' = text.strJobId
              /\ strUserId' = text.strUserId
              /\ w' = text.strJobId \o text.strUserId
    /\ UNCHANGED <<dir, entry, metrics, pc, gpuFiles, gpuToJobMap, gpuUUIDs, pending,
                   counter, idx, modifiedMetrics,
                   resolverCalls, laterPass>>

\* ------------------------------------------------------------ RenderGroup

\* The keys of Labels and of Attributes in the order the template visits them
\* (range over a map with string keys: sorted keys)
LabelNames == <<DriverLabel>>

AttributeNames == <<HpcJobAttribute, HpcUserAttribute>>

\* {{- range $k, $v := . -}} ,{{ $k }}="{{ $v }}" {{- end -}}
RECURSIVE Pairs(_, _)
Pairs(m, names) ==
    IF Len(names) = 0 THEN <<>>
    ELSE (IF Head(names) \in DOMAIN m
          THEN <<",", Head(names), "=\"">> \o m[Head(names)] \o <<"\"">>
          ELSE <<>>) \o Pairs(m, Tail(names))

\* The part of a value line that both blocks of gpuMetricsFormat share: from
\* device= to the closing brace
CommonFields(metric) ==
    <<",device=\"">> \o metric.GPUDevice \o <<"\"">>
        \o <<",modelName=\"">> \o metric.GPUModelName \o <<"\"">>
        \o (IF metric.MigProfile # EmptyStr
            THEN <<",GPU_I_PROFILE=\"">> \o metric.MigProfile \o <<"\"">>
                     \o <<",GPU_I_ID=\"">> \o metric.GPUInstanceID \o <<"\"">>
            ELSE <<>>)
        \o (IF metric.Hostname # EmptyStr
            THEN <<",Hostname=\"">> \o metric.Hostname \o <<"\"">>
            ELSE <<>>)
        \o Pairs(metric.Labels, LabelNames)
        \o Pairs(metric.Attributes, AttributeNames)
        \o <<"} ">>

\* The value line of a Sample under FieldName, without its line break
ValueLine(c, metric) ==
    <<c.FieldName>> \o <<"{gpu=\"">> \o metric.GPU \o <<"\"">>
        \o <<",">> \o metric.UUID \o <<"=\"">> \o metric.AlterUUID \o <<"\"">>
        \o <<",pci_bus_id=\"">> \o metric.GPUPCIBusID \o <<"\"">>
        \o CommonFields(metric) \o metric.Value

\* The value line of a Sample under AlterFieldName, without its line break
AlterValueLine(c, metric) ==
    <<c.AlterFieldName>> \o <<"{minor_number=\"">> \o metric.GPU \o <<"\"">>
        \o <<",uuid=\"">> \o metric.AlterUUID \o <<"\"">>
        \o CommonFields(metric) \o metric.AlterValue

\* {{- range $metric := $metrics }} <line break> <value line> {{- end }} of the
\* block under FieldName
ValueLines(c, deviceMetrics) ==
    LET Upto[i \in 0..Len(deviceMetrics)] ==
            IF i = 0 THEN <<>>
            ELSE Upto[i - 1] \o <<"\n">> \o ValueLine(c, deviceMetrics[i])
    IN  Upto[Len(deviceMetrics)]

\* The same range of the block under AlterFieldName
AlterValueLines(c, deviceMetrics) ==
    LET Upto[i \in 0..Len(deviceMetrics)] ==
            IF i = 0 THEN <<>>
            ELSE Upto[i - 1] \o <<"\n">> \o AlterValueLine(c, deviceMetrics[i])
    IN  Upto[Len(deviceMetrics)]

\* CounterBlock as it would be without {{- if $counter.AlterFieldName }}
CounterBlockAlways(c, deviceMetrics) ==
    <<"# HELP ", c.FieldName, " ", c.Help, "\n",
      "# TYPE ", c.FieldName, " ", c.PromType>>
        \o ValueLines(c, deviceMetrics)
        \o <<"\n", "# HELP ", c.AlterFieldName, " ", c.AlterHelp, "\n",
              "# TYPE ", c.AlterFieldName, " ", c.PromType>>
        \o AlterValueLines(c, deviceMetrics)
        \o <<"\n">>

\* One turn of the outer range of gpuMetricsFormat
CounterBlock(c, deviceMetrics) ==
    <<"# HELP ", c.FieldName, " ", c.Help, "\n",
      "# TYPE ", c.FieldName, " ", c.PromType>>
        \o ValueLines(c, deviceMetrics)
        \o (IF c.AlterFieldName # ""
            THEN <<"\n", "# HELP ", c.AlterFieldName, " ", c.AlterHelp, "\n",
                   "# TYPE ", c.AlterFieldName, " ", c.PromType>>
                     \o AlterValueLines(c, deviceMetrics)
            ELSE <<>>)
        \o <<"\n">>

\* gpuMetricsFormat executed on the SampleSet, its counters in the given order
RECURSIVE GpuMetricsFormat(_, _)
GpuMetricsFormat(m, order) ==
    IF Len(order) = 0 THEN <<>>
    ELSE CounterBlock(Head(order), m[Head(order)]) \o GpuMetricsFormat(m, Tail(order))

\* RenderGroup for the group FE_GPU: the template, then RenderSlurm on the same
\* writer.  The template visits the counters in the order of their keys, which
\* the SampleSet does not fix here: any order.
RenderGroup ==
    /\ pc \in {"done", "failed"}
    /\ \E keys \in Orders(DOMAIN metrics), order \in Orders(DOMAIN metrics) :
          LET text == RenderSlurmAll([strJobId |-> StrJobIdHeader,
                                      strUserId |-> StrUserIdHeader],
                                     Flatten(metrics, order))
          IN  /\ strJobId' = text.strJobId
              /\ strUserId' = text.strUserId
              /\ w' = GpuMetricsFormat(metrics, keys) \o text.strJobId \o text.strUserId
    /\ UNCHANGED <<dir, entry, metrics, pc, gpuFiles, gpuToJobMap, gpuUUIDs, pending,
                   counter, idx, modifiedMetrics, resolverCalls, laterPass>>

Next ==
    \/ Stat
    \/ GetGPUFiles
    \/ ReadFile
    \/ NextCounter
    \/ ProcessMetric
    \/ StoreCounter
    \/ Return
    \/ RenderSlurm
    \/ RenderGroup

Spec == Init /\ [][Next]_vars

\* ------------------------------------------------------------ passes

\* The next collection cycle calls Process again, on the Samples collected anew
\* and the same directory: gpuToJobMap and gpuUUIDs are made anew
Process ==
    /\ pc \in {"done", "failed"}
    /\ metrics' = entry
    /\ pc' = "stat"
    /\ gpuFiles' = <<>>
    /\ gpuToJobMap' = NoMap
    /\ gpuUUIDs' = NoMap
    /\ pending' = {}
    /\ counter' = CounterA
    /\ idx' = 0
    /\ modifiedMetrics' = <<>>
    /\ strJobId' = <<>>
    /\ strUserId' = <<>>
    /\ w' = <<>>
    /\ resolverCalls' = NoCalls
    /\ laterPass' = TRUE
    /\ UNCHANGED <<dir, entry>>

\* Several Samples against a directory of one entry, pass after pass
InitPasses ==
    \E m \in SampleSets(CoreDevices, MaxSamples), d \in Dirs(1) : InitWith(m, d)

NextPasses == Next \/ Process

SpecPasses == InitPasses /\ [][NextPasses]_vars

\* ------------------------------------------------------------ vocabulary of the claims

\* Process has returned nil
Returned == pc = "done"

\* RenderSlurm has written its two blocks
Rendered == Len(strJobId) > 0

\* A Sample without what the enrichment derives
Core(m) ==
    [m EXCEPT !.AlterValue = EmptyStr, !.AlterUUID = EmptyStr,
              !.Attributes = NoAttributes]

\* White space within a line
WhiteSpace == {" ", "\t"}

\* The whitespace-separated tokens of a line
RECURSIVE Fields(_)
Fields(line) ==
    IF Len(line) = 0 THEN <<>>
    ELSE IF Head(line) \in WhiteSpace THEN Fields(Tail(line))
    ELSE LET stops == {k \in 1..Len(line) : line[k] \in WhiteSpace}
             n     == IF stops = {} THEN Len(line) + 1
                      ELSE CHOOSE k \in stops : \A j \in stops : k <= j
         IN  <<SubSeq(line, 1, n - 1)>> \o Fields(SubSeq(line, n, Len(line)))

\* A job record: a non-empty line of one token (job) or two (job and user)
IsRecord(line) == Len(Fields(line)) \in {1, 2}

\* The attributes a job record stands for
RecordAttrs(line) ==
    IF Len(Fields(line)) = 2
    THEN MapPut(MapPut(NoAttributes, HpcJobAttribute, Fields(line)[1]),
                HpcUserAttribute, Fields(line)[2])
    ELSE MapPut(NoAttributes, HpcJobAttribute, Fields(line)[1])

\* The job index the directory holds: the lines of its regular files
JobIndex ==
    [n \in {m \in DOMAIN dir.files : dir.files[m].kind = "file"} |-> dir.files[n].lines]

\* The identifier of a Sample's device: its partition's UUID, or its own
KeyUUID(s) ==
    IF s.MigProfile # EmptyStr
    THEN FindMIGUUID(SysInfo, s.GPU, s.GPUInstanceID).uuid
    ELSE s.GPUUUID

HasEntry(s) == KeyUUID(s) \in DOMAIN JobIndex \/ GpuIDOf(s) \in DOMAIN JobIndex

\* The lines of the entry the Sample's device key maps to: the UUID's, else the
\* device-index key's
LinesOf(s) ==
    IF KeyUUID(s) \in DOMAIN JobIndex THEN JobIndex[KeyUUID(s)]
    ELSE IF GpuIDOf(s) \in DOMAIN JobIndex THEN JobIndex[GpuIDOf(s)]
    ELSE <<>>

\* How many elements of a sequence have the device key of s, and how many of
\* these carry the attributes a
SameKey(seq, s) == {i \in DOMAIN seq : GpuIDOf(seq[i]) = GpuIDOf(s)}

WithAttrs(seq, s, a) == {i \in SameKey(seq, s) : seq[i].Attributes = a}

NumLines(L, T(_)) == Cardinality({j \in DOMAIN L : T(L[j])})

\* The device index of a Sample is one the resolver can use
ValidIndex(s) ==
    /\ Len(s.GPU) > 0
    /\ AllDigits(s.GPU)
    /\ \E g \in 0..(SysInfo.GPUCount - 1) : NatDigits(g) = StrDigits(s.GPU)

\* A pass over an existing directory completes on this SampleSet (no Sample stops
\* the resolver)
Resolvable(m) ==
    \A c \in DOMAIN m : \A i \in DOMAIN m[c] :
        m[c][i].MigProfile # EmptyStr
            => ~FindMIGUUID(SysInfo, m[c][i].GPU, m[c][i].GPUInstanceID).fatal

\* ------------------------------------------------------------ claims

\* C1: once Process has returned nil, every input Sample of every counter has at
\* least one output Sample in that counter's sequence, whatever the mapping files
\* hold.
C1_NoSampleDropped ==
    Returned =>
        \A c \in DOMAIN entry : \A i \in DOMAIN entry[c] :
            \E j \in DOMAIN metrics[c] : Core(metrics[c][j]) = Core(entry[c][i])

\* C2: a Sample whose device key maps to k >= 1 job records produces exactly k
\* output Samples, one per record, each with that record's job attribute and with
\* a user attribute exactly when the record has two tokens.
C2_FanOutExact ==
    (Returned /\ dir.state = "ok") =>
        \A c \in DOMAIN entry : \A i \in DOMAIN entry[c] :
            LET s == entry[c][i]
                L == LinesOf(s)
                k == NumLines(L, IsRecord)
                n == Cardinality(SameKey(entry[c], s))
            IN  k >= 1 =>
                  /\ Cardinality(SameKey(metrics[c], s)) = n * k
                  /\ \A j \in DOMAIN L :
                        IsRecord(L[j]) =>
                            Cardinality(WithAttrs(metrics[c], s, RecordAttrs(L[j])))
                                = n * Cardinality({h \in DOMAIN L :
                                        IsRecord(L[h]) /\ RecordAttrs(L[h]) = RecordAttrs(L[j])})

\* The nvidia_gpu_jobId line of a Sample that carries a job attribute
JobIdLine(o) ==
    <<"nvidia_gpu_jobId">> \o Props(o)
        \o <<",jobid=\"">> \o Attr(o, HpcJobAttribute) \o <<"\"">>
        \o (IF Attr(o, HpcUserAttribute) # EmptyStr
            THEN <<",userid=\"">> \o Attr(o, HpcUserAttribute) \o <<"\"} ">>
            ELSE <<"} ">>)
        \o Attr(o, HpcJobAttribute) \o <<"\n">>

\* C3: RenderSlurm emits a nvidia_gpu_jobId line for every (device-identity, job,
\* user) triple of the rendered Samples.
C3_EveryTripleEmitted ==
    Rendered =>
        \A c \in DOMAIN metrics : \A i \in DOMAIN metrics[c] :
            Attr(metrics[c][i], HpcJobAttribute) # EmptyStr
                => Contains(strJobId, JobIdLine(metrics[c][i]))

\* C4: a Sample whose device key has no job-index entry, or whose entry has no
\* job record (no line of one or two tokens), is in the output exactly once, with
\* the content it came with and no attribute added.
C4_PassThrough ==
    Returned =>
        \A c \in DOMAIN entry : \A i \in DOMAIN entry[c] :
            LET s == entry[c][i]
            IN  (dir.state = "missing" \/ ~HasEntry(s) \/ NumLines(LinesOf(s), IsRecord) = 0) =>
                  /\ Cardinality(SameKey(metrics[c], s))
                        = Cardinality(SameKey(entry[c], s))
                  /\ \A j \in SameKey(metrics[c], s) :
                        /\ metrics[c][j].Attributes = s.Attributes
                        /\ \E h \in SameKey(entry[c], s) :
                              Core(metrics[c][j]) = Core(entry[c][h])

\* What a pass over a directory without job records makes of a SampleSet
EmptyPass(m) ==
    [c \in DOMAIN m |->
        [i \in DOMAIN m[c] |->
            [m[c][i] EXCEPT !.AlterValue = ScaleValue(m[c][i]),
                            !.AlterUUID = KeyUUID(m[c][i])]]]

\* C5: when the directory does not exist, Process returns nil and leaves the
\* SampleSet as a pass over an existing directory without job records leaves it.
C5_MissingDirAsEmpty ==
    (Returned /\ dir.state = "missing" /\ Resolvable(entry)) => metrics = EmptyPass(entry)

\* C6: once Process has returned nil, every output Sample of a counter of multiplier
\* 1 has an alternate value equal to its value.
C6_UnitMultiplier ==
    Returned =>
        \A c \in DOMAIN metrics : \A i \in DOMAIN metrics[c] :
            metrics[c][i].Counter.Multiplier = 1
                => metrics[c][i].AlterValue = metrics[c][i].Value

\* An integer-formatted value of the int range: an optional sign and digits, below
\* 2^63 in magnitude
IntFormatted(v) ==
    /\ Len(Unsigned(v)) > 0
    /\ AllDigits(Unsigned(v))
    /\ CmpMag(StrDigits(Unsigned(v)), TwoTo63) < 0

\* The decimal text of the product of an integer-formatted value and m
ProductText(v, m) ==
    LET p     == MulMag(StrDigits(Unsigned(v)), Abs(m))
        minus == ((HasSign(v) /\ v[1] = "-") # (m < 0)) /\ p # ZeroMag
    IN  (IF minus THEN <<"-">> ELSE <<>>) \o MagStr(p)

\* C7: after a pass over an existing directory, every Sample of a counter of
\* multiplier m # 1 with an integer-formatted value v has the alternate value
\* v*m, written as an integer.
C7_IntegerProduct ==
    (Returned /\ dir.state = "ok") =>
        \A c \in DOMAIN metrics : \A i \in DOMAIN metrics[c] :
            LET o == metrics[c][i]
            IN  (o.Counter.Multiplier # 1 /\ IntFormatted(o.Value))
                    => o.AlterValue = ProductText(o.Value, o.Counter.Multiplier)

\* C8: a line of three or more whitespace-separated tokens adds no output Sample,
\* and every line of one or two tokens of the same file still has its output
\* Sample with its attributes.
C8_MalformedLineSkipped ==
    (Returned /\ dir.state = "ok") =>
        \A c \in DOMAIN entry : \A i \in DOMAIN entry[c] :
            LET s    == entry[c][i]
                L    == LinesOf(s)
                LongLine(l) == Len(Fields(l)) >= 3
                n    == Cardinality(SameKey(entry[c], s))
            IN  Len(L) > 0 =>
                  /\ Cardinality(SameKey(metrics[c], s))
                        <= n * (Len(L) - NumLines(L, LongLine))
                  /\ \A j \in DOMAIN L :
                        IsRecord(L[j])
                            => Cardinality(WithAttrs(metrics[c], s, RecordAttrs(L[j]))) >= n

\* The directory holds a regular file that cannot be read
SomeReadFails ==
    dir.state = "ok" /\ \E n \in DOMAIN dir.files : dir.files[n].kind = "ioerr"

\* C9: if reading a mapping file fails, Process returns the error (it never gets
\* to the Samples) and the SampleSet is as it was on entry.
C9_ReadFailureKeepsSamples ==
    /\ SomeReadFails => (pc \in {"stat", "list", "read", "failed"} /\ metrics = entry)
    /\ pc = "failed" => metrics = entry

\* Process returned the read error of the second file after it had read the first
C9_Witness ==
    /\ pc = "failed"
    /\ SomeReadFails
    /\ DOMAIN gpuToJobMap # {}
    /\ \E c \in DOMAIN entry : Len(entry[c]) > 0

\* A valid device index with a partition instance id that is a number the
\* resolver does not know
UnknownInstance(s) ==
    /\ s.MigProfile # EmptyStr
    /\ ValidIndex(s)
    /\ ParseUintOK(s.GPUInstanceID)
    /\ ~FindMIGUUID(SysInfo, s.GPU, s.GPUInstanceID).fatal
    /\ FindMIGUUID(SysInfo, s.GPU, s.GPUInstanceID).uuid = EmptyStr

\* C10: a pass whose SampleSet holds a partitioned Sample with a device index the
\* resolver cannot use never completes normally, and once the resolver has
\* stopped the pass nothing is appended or stored; a partitioned Sample with a
\* valid device index and an unknown instance id is in the output of the pass.
C10_FatalIndexUnknownInstance ==
    [][/\ pc = "fatal" => UNCHANGED <<pc, metrics, modifiedMetrics>>
       /\ pc' = "done" =>
            \A c \in DOMAIN entry : \A i \in DOMAIN entry[c] :
                /\ entry[c][i].MigProfile # EmptyStr => ValidIndex(entry[c][i])
                /\ UnknownInstance(entry[c][i]) =>
                      \E j \in DOMAIN metrics'[c] :
                          Core(metrics'[c][j]) = Core(entry[c][i])]_vars

\* A line begins with white space
LeadingSpace(l) == Len(l) > 0 /\ Head(l) \in WhiteSpace

\* C13: an empty line of a mapping file is no job record: a Sample whose entry
\* holds an empty line (and no line that begins with white space) has no output
\* Sample that carries a job attribute with an empty value.
C13_EmptyLineNoRecord ==
    (Returned /\ dir.state = "ok") =>
        \A c \in DOMAIN entry : \A i \in DOMAIN entry[c] :
            LET s == entry[c][i]
                L == LinesOf(s)
            IN  ((\E j \in DOMAIN L : L[j] = EmptyStr)
                    /\ \A j \in DOMAIN L : ~LeadingSpace(L[j])) =>
                  \A j \in SameKey(metrics[c], s) :
                      HpcJobAttribute \in DOMAIN metrics[c][j].Attributes
                          => metrics[c][j].Attributes[HpcJobAttribute] # EmptyStr

\* The job id the code reads off a line: the text before its first space, or the
\* whole line
LineJob(l) ==
    LET sp == {k \in 1..Len(l) : l[k] = " "}
    IN  IF sp = {} THEN l
        ELSE SubSeq(l, 1, (CHOOSE k \in sp : \A h \in sp : k <= h) - 1)

\* C14: the job attributes of a Sample's outputs come from the lines stored under
\* its resolved UUID when the job index has an entry for the UUID, and from those
\* stored under its device-index key only when it has none; an entry of no lines
\* under the UUID leaves the Sample without attributes whatever the device-index
\* key holds.
C14_UuidFirstNoMerge ==
    (Returned /\ dir.state = "ok") =>
        \A c \in DOMAIN entry : \A i \in DOMAIN entry[c] :
            LET s == entry[c][i]
                L == IF KeyUUID(s) \in DOMAIN JobIndex THEN JobIndex[KeyUUID(s)]
                     ELSE IF GpuIDOf(s) \in DOMAIN JobIndex THEN JobIndex[GpuIDOf(s)]
                     ELSE <<>>
            IN  \A j \in SameKey(metrics[c], s) :
                    /\ Len(L) = 0 => metrics[c][j].Attributes = NoAttributes
                    /\ Len(L) > 0 =>
                          /\ HpcJobAttribute \in DOMAIN metrics[c][j].Attributes
                          /\ \E h \in DOMAIN L :
                                metrics[c][j].Attributes[HpcJobAttribute] = LineJob(L[h])

\* Both keys of a Sample have an entry of one line, the two lines name different
\* jobs, and the output is the one Sample of the UUID's job
C14_Witness ==
    /\ Returned
    /\ dir.state = "ok"
    /\ \E c \in DOMAIN entry : \E i \in DOMAIN entry[c] :
          LET s == entry[c][i]
          IN  /\ KeyUUID(s) \in DOMAIN JobIndex
              /\ GpuIDOf(s) \in DOMAIN JobIndex
              /\ Len(JobIndex[KeyUUID(s)]) = 1
              /\ Len(JobIndex[GpuIDOf(s)]) = 1
              /\ LineJob(JobIndex[KeyUUID(s)][1]) # LineJob(JobIndex[GpuIDOf(s)][1])
              /\ Len(metrics[c]) = 1
              /\ Attr(metrics[c][1], HpcJobAttribute) = LineJob(JobIndex[KeyUUID(s)][1])

\* The outputs out[j..] are those of the inputs inp[i..] in their order, the
\* copies of inp[i] after line p of its entry in the order of the lines; an input
\* without lines has one output without attributes (p counts it)
RECURSIVE InOrder(_, _, _, _, _)
InOrder(out, inp, j, i, p) ==
    IF j > Len(out) THEN TRUE
    ELSE IF i > Len(inp) THEN FALSE
    ELSE LET o    == out[j]
             L    == LinesOf(inp[i])
             next == {q \in DOMAIN L :
                         /\ q > p
                         /\ HpcJobAttribute \in DOMAIN o.Attributes
                         /\ o.Attributes[HpcJobAttribute] = LineJob(L[q])}
             fits == /\ Core(o) = Core(inp[i])
                     /\ IF Len(L) = 0 THEN p = 0 /\ o.Attributes = NoAttributes
                        ELSE next # {}
         IN  IF fits
             THEN InOrder(out, inp, j + 1, i,
                          IF Len(L) = 0 THEN 1
                          ELSE CHOOSE q \in next : \A h \in next : q <= h)
             ELSE InOrder(out, inp, j, i + 1, 0)

\* C16: the SampleSet keeps its counter keys throughout the pass, and once Process
\* has returned nil each counter lists the outputs of input Sample i before those
\* of input Sample i+1, the copies of one Sample in the order of the job lines.
C16_OrderAndKeys ==
    /\ DOMAIN metrics = DOMAIN entry
    /\ Returned => \A c \in DOMAIN entry : InOrder(metrics[c], entry[c], 1, 1, 0)

\* A counter of two different Samples: two copies of the first, for two different
\* jobs, and then the second
C16_Witness ==
    /\ Returned
    /\ \E c \in DOMAIN entry :
          /\ Len(entry[c]) = 2
          /\ Len(metrics[c]) = 3
          /\ Core(entry[c][1]) # Core(entry[c][2])
          /\ Core(metrics[c][1]) = Core(entry[c][1])
          /\ Core(metrics[c][2]) = Core(entry[c][1])
          /\ Core(metrics[c][3]) = Core(entry[c][2])
          /\ Attr(metrics[c][1], HpcJobAttribute) # Attr(metrics[c][2], HpcJobAttribute)

\* C15: within a pass FindMIGUUID is called at most once for each device key, over
\* all counters and Samples; once the pass has returned nil every output Sample has
\* the identifier that the pass cached for its device key as its alternate
\* identifier; and a pass, the first or a later one, starts without cached
\* identifiers and without calls made.
C15_ResolverOncePerKey ==
    /\ \A k \in DOMAIN resolverCalls : resolverCalls[k] <= 1
    /\ (Returned /\ dir.state = "ok") =>
          \A c \in DOMAIN metrics : \A j \in DOMAIN metrics[c] :
              /\ GpuIDOf(metrics[c][j]) \in DOMAIN gpuUUIDs
              /\ metrics[c][j].AlterUUID = gpuUUIDs[GpuIDOf(metrics[c][j])]
              /\ metrics[c][j].MigProfile # EmptyStr
                    => resolverCalls[GpuIDOf(metrics[c][j])] = 1
    /\ pc = "stat" => (gpuUUIDs = NoMap /\ resolverCalls = NoCalls)

\* A later pass has returned: two counters each hold a Sample of the same
\* partition, and the pass called the resolver once for it
C15_Witness ==
    /\ laterPass
    /\ Returned
    /\ dir.state = "ok"
    /\ \E c1 \in DOMAIN metrics, c2 \in DOMAIN metrics :
          /\ c1 # c2
          /\ Len(metrics[c1]) > 0
          /\ Len(metrics[c2]) > 0
          /\ metrics[c1][1].MigProfile # EmptyStr
          /\ GpuIDOf(metrics[c1][1]) = GpuIDOf(metrics[c2][1])
          /\ resolverCalls[GpuIDOf(metrics[c1][1])] = 1
          /\ metrics[c2][1].AlterUUID = metrics[c1][1].AlterUUID

\* ------------------------------------------------------------ rendered text

\* RenderGroup has written the text of the standalone-device class
GroupRendered == Len(w) > 0 /\ w[1] = "# HELP "

\* The lines of a text
TextLines(t) == Split(t, "\n")

\* The text of a partition profile on a line: what stands between GPU_I_PROFILE="
\* at k and the closing quote
ProfileAt(line, k) ==
    LET close == {h \in (k + 1)..Len(line) : line[h] = "\""}
    IN  SubSeq(line, k + 1, (CHOOSE h \in close : \A g \in close : h <= g) - 1)

\* C11: on every line RenderGroup writes for the standalone-device class, value
\* lines and synthesized job lines alike, the fields GPU_I_PROFILE and GPU_I_ID
\* stand only with a non-empty partition profile, that of a Sample of the
\* SampleSet.
C11_PartitionFieldsOnlyWithProfile ==
    GroupRendered =>
        \A n \in DOMAIN TextLines(w) :
            LET line == TextLines(w)[n]
            IN  \A k \in DOMAIN line :
                    line[k] \in {",GPU_I_PROFILE=\"", ",GPU_I_ID=\""} =>
                        \E c \in DOMAIN metrics : \E i \in DOMAIN metrics[c] :
                            /\ metrics[c][i].MigProfile # EmptyStr
                            /\ line[k] = ",GPU_I_PROFILE=\""
                                  => ProfileAt(line, k) = metrics[c][i].MigProfile
                            /\ line[k] = ",GPU_I_ID=\""
                                  => ProfileAt(line, k) = metrics[c][i].GPUInstanceID

\* What the template wrote: the text before the header of the job lines
TemplateText(t) ==
    LET at == {k \in DOMAIN t : t[k] = StrJobIdHeader[1]}
    IN  IF at = {} THEN t
        ELSE SubSeq(t, 1, (CHOOSE k \in at : \A h \in at : k <= h) - 1)

IsHelpLine(line, name) == Len(line) >= 2 /\ line[1] = "# HELP " /\ line[2] = name

IsTypeLine(line, name) == Len(line) >= 2 /\ line[1] = "# TYPE " /\ line[2] = name

\* Where the braces of a value line close
BraceAt(line) == CHOOSE b \in DOMAIN line : line[b] = "} "

\* The labels and attributes of a value line from device= on
SharedLabels(line) ==
    SubSeq(line, CHOOSE d \in DOMAIN line : line[d] = ",device=\"", BraceAt(line))

\* A value line of the Sample o under a name, with the value v
IsValueLine(line, name, o, v) ==
    /\ Len(line) >= 3
    /\ line[1] = name
    /\ SubSeq(line, 3, 2 + Len(o.GPU)) = o.GPU
    /\ \E b \in DOMAIN line : line[b] = "} "
    /\ SubSeq(line, BraceAt(line) + 1, Len(line)) = v
    /\ \A a \in DOMAIN o.Attributes :
          Contains(SharedLabels(line), <<",", a, "=\"">> \o o.Attributes[a] \o <<"\"">>)
    /\ \A a \in {HpcJobAttribute, HpcUserAttribute} \ DOMAIN o.Attributes :
          ~Contains(line, <<",", a, "=\"">>)

\* From line at on, the lines are the blocks of the counters of order: HELP, TYPE
\* and one value line per Sample, then the same under the alternate name if the
\* counter has one, and nothing else
RECURSIVE BlocksFrom(_, _, _, _)
BlocksFrom(lines, m, order, at) ==
    IF Len(order) = 0 THEN at = Len(lines) /\ lines[at] = <<>>
    ELSE LET c    == Head(order)
             n    == Len(m[c])
             alt  == c.AlterFieldName # ""
             size == 2 + n + (IF alt THEN 2 + n ELSE 0)
         IN  /\ at + size <= Len(lines)
             /\ IsHelpLine(lines[at], c.FieldName)
             /\ IsTypeLine(lines[at + 1], c.FieldName)
             /\ \A i \in 1..n :
                   IsValueLine(lines[at + 1 + i], c.FieldName, m[c][i], m[c][i].Value)
             /\ alt =>
                   /\ IsHelpLine(lines[at + 2 + n], c.AlterFieldName)
                   /\ IsTypeLine(lines[at + 3 + n], c.AlterFieldName)
                   /\ \A i \in 1..n :
                         /\ IsValueLine(lines[at + 3 + n + i], c.AlterFieldName,
                                        m[c][i], m[c][i].AlterValue)
                         /\ SharedLabels(lines[at + 3 + n + i])
                               = SharedLabels(lines[at + 1 + i])
             /\ BlocksFrom(lines, m, Tail(order), at + size)

\* C12: what RenderGroup writes for the standalone-device class before the job
\* lines is, counter after counter in some order of the counters, a HELP line, a
\* TYPE line and one value line per Sample in the order of the counter's
\* sequence, followed at once, if and only if the counter has an alternate name,
\* by a HELP line, a TYPE line and one value line per Sample under the alternate
\* name, with the alternate value and the same labels and attributes.
C12_BlockStructure ==
    GroupRendered =>
        \E order \in Orders(DOMAIN metrics) :
            BlocksFrom(TextLines(TemplateText(w)), metrics, order, 1)

\* The text of a counter with an alternate name and two Samples, one of them
\* with attributes, and of a counter without alternate name and one Sample
C12_Witness ==
    /\ GroupRendered
    /\ \E c1 \in DOMAIN metrics, c2 \in DOMAIN metrics :
          /\ c1.AlterFieldName # ""
          /\ c2.AlterFieldName = ""
          /\ Len(metrics[c1]) = 2
          /\ Len(metrics[c2]) = 1
          /\ Attr(metrics[c1][2], HpcUserAttribute) # EmptyStr
          /\ metrics[c1][1].AlterValue # metrics[c1][1].Value

\* The lines of a text that begin with a given piece
LinesWith(t, first) ==
    {n \in DOMAIN TextLines(t) :
        Len(TextLines(t)[n]) > 0 /\ TextLines(t)[n][1] = first}

\* The labels of a job line or a user line: all between the name and the value
JobLabels(line) ==
    SubSeq(line, 2, CHOOSE b \in DOMAIN line : line[b] \in {"} ", "\"} "})

\* The labels RenderSlurm gives the lines of a Sample with a job and a user
\* attribute
JobUserLabels(o) ==
    Props(o) \o <<",jobid=\"">> \o Attr(o, HpcJobAttribute) \o <<"\"">>
        \o <<",userid=\"">> \o Attr(o, HpcUserAttribute) \o <<"\"} ">>

\* C17: the text RenderSlurm writes holds each line of the two headers once, also
\* when no Sample has a job attribute; every nvidia_gpu_jobId line stands before
\* every nvidia_gpu_jobUid line; and every nvidia_gpu_jobUid line has the labels
\* of a nvidia_gpu_jobId line and is that of a Sample with a job and a user
\* attribute.
C17_SlurmTextShape ==
    Rendered =>
        LET text == strJobId \o strUserId
            L    == TextLines(text)
        IN  /\ \A h \in {StrJobIdHeader[1], StrJobIdHeader[3],
                          StrUserIdHeader[1], StrUserIdHeader[3]} :
                  Cardinality(LinesWith(text, h)) = 1
            /\ \A u \in LinesWith(text, "nvidia_gpu_jobUid") :
                  /\ \A j \in LinesWith(text, "nvidia_gpu_jobId") : j < u
                  /\ \E j \in LinesWith(text, "nvidia_gpu_jobId") :
                        JobLabels(L[j]) = JobLabels(L[u])
                  /\ \E c \in DOMAIN metrics : \E i \in DOMAIN metrics[c] :
                        /\ Attr(metrics[c][i], HpcJobAttribute) # EmptyStr
                        /\ Attr(metrics[c][i], HpcUserAttribute) # EmptyStr
                        /\ JobLabels(L[u]) = JobUserLabels(metrics[c][i])
                        /\ SubSeq(L[u], Len(JobLabels(L[u])) + 2, Len(L[u]))
                              = Attr(metrics[c][i], HpcUserAttribute)
            /\ w = text \/ (GroupRendered /\ Contains(w, text))

\* Rendered: a Sample with a job and a user has its two lines, and a Sample of
\* another device with a user and no job has none
C17_Witness ==
    /\ Rendered
    /\ Cardinality(LinesWith(strJobId \o strUserId, "nvidia_gpu_jobUid")) = 1
    /\ \E c \in DOMAIN metrics : \E i \in DOMAIN metrics[c] :
          /\ Attr(metrics[c][i], HpcJobAttribute) = EmptyStr
          /\ Attr(metrics[c][i], HpcUserAttribute) # EmptyStr
          /\ \E j \in DOMAIN metrics[c] :
                /\ Attr(metrics[c][j], HpcJobAttribute) # EmptyStr
                /\ Attr(metrics[c][j], HpcUserAttribute) # EmptyStr

====
